---- MODULE Spec2Model ----
(***************************************************************************)
(* The playback controller of the battlecode client: Client.runMatch and   *)
(* its loop, the Controls buttons that drive it, and the Client's game and *)
(* match selection.  Simulated time is kept in thousandths of a turn, so   *)
(* that goalUPS * (curTime - lastTime) / 1000 is exact for every elapsed   *)
(* time in whole milliseconds.                                             *)
(***************************************************************************)
EXTENDS Integers, Sequences, FiniteSets, TLC

\* ------------------------------------------------------------ constants
\* let goalUPS = 10
DefaultUPS == 10
\* goalUPS === 300 ? 10 : 300
FastUPS == 300
\* goalUPS === -100 ? 10 : -100
RewindUPS == -100
\* rewinding && match.current.turn <= 10
RewindGuard == 10
\* Math.abs(interpGameTime - match.current.turn) < 10
DriftWindow == 10
\* goalUPS * (curTime - lastTime) / 1000
Milli == 1000
\* match.compute(5 /* ms */)
ComputeBudget == 5
\* canvas.width = 400
CanvasWidth == 400

\* --------------------------------------------------------------- bounds
\* match.deltas.length and match['_farthest'].turn of a fully loaded match
MaxLoadedTurn == 14
\* the game files a user has at hand
MaxGames == 2

\* null, where the other values are numbers (timestamps are >= 0, frame
\* handles >= 1)
NULL == -1
\* the value of a field that was declared and never assigned
UNDEFINED == -2
\* no Match: runMatch has not run (game identities start at 1)
NoMatch == <<0, 0>>

\* Elapsed milliseconds between two animation frames.
FrameTimes == {50, 100}
\* Horizontal offsets of a pointer-down on the timeline canvas.
OffsetXs == {0, 200, 399}
\* Offsets at and just past the canvas edges: event.offsetX is whatever the
\* browser reports, and the listener reads it as it comes.
EdgeOffsetXs == {-1, 0, 200, 399, 400}
\* Values the render-rate TickCounter may report (rendersPerSecond.tps).
RenderRates == {10, 60}
\* What one match.compute(5) achieves: nothing, one turn, or the seek target.
ComputeSteps == {"none", "one", "all"}

GameIds == 1..MaxGames
\* game.matchCount: the first file holds one match, the others two
MatchCount(g) == IF g = 1 THEN 1 ELSE 2
MatchRefs == UNION {{<<g, m>> : m \in 0..(MatchCount(g) - 1)} : g \in GameIds}

VARIABLES
  games,          \* Client.games: the loaded Game objects, by identity
  currentGame,    \* Client.currentGame
  currentMatch,   \* Client.currentMatch
  loopID,         \* Client.loopID
  raf,            \* pending requestAnimationFrame callbacks
  reading,        \* FileReaders that have not fired onload yet
  playing,        \* the Match the latest runMatch closure captured
  goalUPS,        \* runMatch: let goalUPS
  rewinding,      \* runMatch: let rewinding
  interpGameTime, \* runMatch: let interpGameTime, in 1/Milli turns
  lastTime,       \* runMatch: let lastTime
  externalSeek,   \* runMatch: let externalSeek
  listeners,      \* matches captured by the timeline's mousedown listeners
  eng,            \* per Match: current.turn and seekTo
  interpolate,    \* conf.interpolate
  imgs,           \* Controls.imgs: which of the toggled icons are displayed
  destroyed,      \* Controls.destroy() has been called
  lastID,         \* MapEditorForm.lastID
  originalBodies, \* MapEditorForm.originalBodies: id -> type of the unit
  idA,            \* MapEditorForm.idA.textContent, as its digits
  idT,            \* MapEditorForm.idT.textContent, as its digits
  tree,           \* MapEditorForm.tree.checked (archon.checked is its negation)
  ev              \* what the latest handler did (calls made, inputs read)

vars == <<games, currentGame, currentMatch, loopID, raf, reading, playing,
          goalUPS, rewinding, interpGameTime, lastTime, externalSeek,
          listeners, eng, interpolate, imgs, destroyed,
          lastID, originalBodies, idA, idT, tree, ev>>

\* The state of the client and of the map editor form.
clientVars == <<games, currentGame, currentMatch, loopID, raf, reading,
                playing, goalUPS, rewinding, interpGameTime, lastTime,
                externalSeek, listeners, eng, interpolate, imgs, destroyed>>
editorVars == <<lastID, originalBodies, idA, idT, tree>>

\* ------------------------------------------------------------- helpers
Abs(x) == IF x < 0 THEN -x ELSE x

\* x | 0 for x given in 1/Milli turns: truncation toward zero.  (The wrap
\* to 32 bits that follows it is the identity below 2^31 turns, and the
\* drift window keeps interpGameTime within a few hundred turns.)
ToInt32(x) == IF x >= 0 THEN x \div Milli ELSE -((-x) \div Milli)

\* Math.floor(a / b) for b > 0
MathFloor(a, b) == a \div b

\* The state as one record, so that a handler is the composition of the
\* calls it makes.  seeks logs the match.seek calls of the running handler,
\* computes the budgets of its match.compute calls, frames counts its
\* requestAnimationFrame calls, calls lists its calls to the engine, the
\* TickCounters and controls.setTime in the order made; err is set once an
\* exception has been thrown.
St ==
  [games |-> games, currentGame |-> currentGame, currentMatch |-> currentMatch,
   loopID |-> loopID, raf |-> raf, reading |-> reading, playing |-> playing,
   goalUPS |-> goalUPS, rewinding |-> rewinding,
   interpGameTime |-> interpGameTime, lastTime |-> lastTime,
   externalSeek |-> externalSeek, listeners |-> listeners, eng |-> eng,
   interpolate |-> interpolate, imgs |-> imgs, destroyed |-> destroyed,
   seeks |-> <<>>, computes |-> <<>>, frames |-> 0, calls |-> <<>>,
   err |-> FALSE]

Commit(s) ==
  /\ games' = s.games
  /\ currentGame' = s.currentGame
  /\ currentMatch' = s.currentMatch
  /\ loopID' = s.loopID
  /\ raf' = s.raf
  /\ reading' = s.reading
  /\ playing' = s.playing
  /\ goalUPS' = s.goalUPS
  /\ rewinding' = s.rewinding
  /\ interpGameTime' = s.interpGameTime
  /\ lastTime' = s.lastTime
  /\ externalSeek' = s.externalSeek
  /\ listeners' = s.listeners
  /\ eng' = s.eng
  /\ interpolate' = s.interpolate
  /\ imgs' = s.imgs
  /\ destroyed' = s.destroyed
  /\ UNCHANGED editorVars

\* The record of a handler that is not the loop.
Event(op, s) ==
  [op |-> op, seeks |-> s.seeks, computes |-> s.computes, frames |-> s.frames,
   calls |-> s.calls, err |-> s.err, branch |-> "", render |-> "", lerp |-> 0]

\* ------------------------------------------------- the engine (Match)
NewMatch == [turn |-> 0, seekTo |-> 0]

\* Match.seek(round): a target outside the loaded turns is ignored.
EngineSeek(e, round) ==
  IF round >= 0 /\ round <= MaxLoadedTurn THEN [e EXCEPT !.seekTo = round] ELSE e

\* Match.compute(budget): moves current toward seekTo as far as the budget
\* allows.
EngineCompute(e, step) ==
  CASE step = "none" -> e
    [] step = "one"  -> [e EXCEPT !.turn = IF e.turn < e.seekTo THEN e.turn + 1
                                           ELSE IF e.turn > e.seekTo THEN e.turn - 1
                                           ELSE e.turn]
    [] OTHER         -> [e EXCEPT !.turn = e.seekTo]

\* A call fn(arg) to a collaborator, noted in the order it is made.
Call(s, fn, arg) == [s EXCEPT !.calls = Append(@, [fn |-> fn, arg |-> arg])]

\* match.seek(round), as called by the controller
MatchSeek(s, m, round) ==
  [Call(s, "match.seek", round)
     EXCEPT !.eng[m] = EngineSeek(@, round),
            !.seeks = Append(@, [m |-> m, round |-> round])]

\* ------------------------------------------- runMatch's control callbacks
\* Mutant: unpausing resumes at the fast rate.
OnTogglePause_Fast(s) ==
  [s EXCEPT !.goalUPS = IF s.goalUPS = 0 THEN FastUPS ELSE 0,
            !.rewinding = FALSE]

\* Mutant: the pause toggle leaves rewinding as it was.
OnTogglePause_KeepRewinding(s) ==
  [s EXCEPT !.goalUPS = IF s.goalUPS = 0 THEN DefaultUPS ELSE 0]

OnTogglePause(s) ==
  [s EXCEPT !.goalUPS = IF s.goalUPS = 0 THEN DefaultUPS ELSE 0,
            !.rewinding = FALSE]

\* Mutant: the forward toggle resumes a paused game at the default rate.
OnToggleForward_Unpause(s) ==
  [s EXCEPT !.goalUPS = IF s.goalUPS \in {0, FastUPS} THEN DefaultUPS ELSE FastUPS,
            !.rewinding = FALSE]

\* Mutant: the forward toggle leaves rewinding as it was.
OnToggleForward_KeepRewinding(s) ==
  [s EXCEPT !.goalUPS = IF s.goalUPS = FastUPS THEN DefaultUPS ELSE FastUPS]

\* Mutant: the forward toggle also brings interpGameTime back to the turn
\* the engine is at.
OnToggleForward_Resync(s) ==
  [s EXCEPT !.goalUPS = IF s.goalUPS = FastUPS THEN DefaultUPS ELSE FastUPS,
            !.rewinding = FALSE,
            !.interpGameTime = s.eng[s.playing].turn * Milli]

OnToggleForward(s) ==
  [s EXCEPT !.goalUPS = IF s.goalUPS = FastUPS THEN DefaultUPS ELSE FastUPS,
            !.rewinding = FALSE]

\* Mutant: the rewind toggle sets rewinding instead of flipping it.
OnToggleRewind_Set(s) ==
  [s EXCEPT !.goalUPS = IF s.goalUPS = RewindUPS THEN DefaultUPS ELSE RewindUPS,
            !.rewinding = TRUE]

\* Mutant: the rewind toggle changes the goal speed and forgets the flag.
OnToggleRewind_NoFlag(s) ==
  [s EXCEPT !.goalUPS = IF s.goalUPS = RewindUPS THEN DefaultUPS ELSE RewindUPS]

OnToggleRewind(s) ==
  [s EXCEPT !.goalUPS = IF s.goalUPS = RewindUPS THEN DefaultUPS ELSE RewindUPS,
            !.rewinding = ~s.rewinding]

\* Mutant: the seek intent leaves interpGameTime where it was.
OnSeek_KeepTime(s, turn) ==
  MatchSeek([s EXCEPT !.externalSeek = TRUE], s.playing, turn)

\* Mutant: the seek intent also resumes play at the default rate.
OnSeek_Play(s, turn) ==
  [MatchSeek([s EXCEPT !.externalSeek = TRUE], s.playing, turn)
     EXCEPT !.interpGameTime = turn * Milli, !.goalUPS = DefaultUPS,
            !.rewinding = FALSE]

OnSeek(s, turn) ==
  LET s1 == [s EXCEPT !.externalSeek = TRUE]
      s2 == MatchSeek(s1, s.playing, turn)
  IN  [s2 EXCEPT !.interpGameTime = turn * Milli]

\* One mousedown listener on the timeline, registered by the runMatch call
\* that captured match m.  Only the latest closure's externalSeek and
\* interpGameTime are read by a loop; an older closure's are dead.
TimelineListener(s, m, offsetX) ==
  LET turn == MathFloor(MaxLoadedTurn * offsetX, CanvasWidth)
      s1 == MatchSeek(s, m, turn)
  IN  IF m = s.playing
      THEN [s1 EXCEPT !.externalSeek = TRUE, !.interpGameTime = turn * Milli]
      ELSE s1

\* ---------------------------------------------------------- Controls
\* imgs.start: playbackStart is displayed (and playbackPause is not);
\* imgs.ff: seekForward is displayed (and skipForward is not);
\* imgs.rw: seekBackward is displayed (and skipBackward is not).
ControlsPause(s) ==
  LET s1 == OnTogglePause(s)
  IN  IF ~s1.imgs.start
      THEN [s1 EXCEPT !.imgs = [start |-> TRUE, ff |-> FALSE, rw |-> FALSE]]
      ELSE [s1 EXCEPT !.imgs.start = FALSE]

ControlsForward(s) ==
  LET s1 == OnToggleForward(s)
  IN  [s1 EXCEPT !.imgs = [start |-> FALSE, ff |-> ~s1.imgs.ff, rw |-> FALSE]]

ControlsRewind(s) ==
  LET s1 == OnToggleRewind(s)
  IN  [s1 EXCEPT !.imgs = [start |-> FALSE, ff |-> FALSE, rw |-> ~s1.imgs.rw]]

ControlsRestart(s) == OnSeek(s, 0)

\* Controls.loadMatch without the FileReader: the buttons are reset.
ResetButtons(s) ==
  [s EXCEPT !.imgs = [start |-> FALSE, ff |-> FALSE, rw |-> FALSE]]

\* Controls.destroy(): logs, and nothing else.
ControlsDestroy(s) == [s EXCEPT !.destroyed = TRUE]

\* ------------------------------------------------ animation frames
FreshHandle(s) ==
  CHOOSE n \in 1..(Cardinality(s.raf) + 1) : \A cb \in s.raf : cb.id # n

\* this.loopID = window.requestAnimationFrame(loop)
RequestFrame(s) ==
  LET h == FreshHandle(s)
  IN  [s EXCEPT !.raf = @ \cup {[id |-> h, cur |-> TRUE]}, !.loopID = h,
                !.frames = @ + 1]

\* window.cancelAnimationFrame(handle)
CancelFrame(s, handle) ==
  [s EXCEPT !.raf = {cb \in @ : cb.id # handle}]

\* Mutant: the handle is forgotten and the frame it names is left pending.
ClearScreen_NoCancel(s) ==
  IF s.loopID # NULL THEN [s EXCEPT !.loopID = NULL] ELSE s

ClearScreen(s) ==
  IF s.loopID # NULL
  THEN [CancelFrame(s, s.loopID) EXCEPT !.loopID = NULL]
  ELSE s

\* ------------------------------------------------------- the main loop
\* Mutant: the drift test is left out, so the loop never stalls.
LoopBranch_NoStall(s) ==
  LET e == s.eng[s.playing]
  IN  IF s.lastTime = NULL THEN "first"
      ELSE IF s.externalSeek THEN "seeking"
      ELSE IF s.rewinding /\ e.turn <= RewindGuard THEN "autostop"
      ELSE "advance"

\* Mutant: a seek in flight is looked at before the first-frame test.
LoopBranch_SeekFirst(s) ==
  LET e == s.eng[s.playing]
  IN  IF s.externalSeek THEN "seeking"
      ELSE IF s.lastTime = NULL THEN "first"
      ELSE IF s.rewinding /\ e.turn <= RewindGuard THEN "autostop"
      ELSE IF Abs(s.interpGameTime - e.turn * Milli) < DriftWindow * Milli
      THEN "advance"
      ELSE "stall"

\* Mutant: the rewind is stopped only once the engine is back at turn 0.
LoopBranch_StopAtZero(s) ==
  LET e == s.eng[s.playing]
  IN  IF s.lastTime = NULL THEN "first"
      ELSE IF s.externalSeek THEN "seeking"
      ELSE IF s.rewinding /\ e.turn <= 0 THEN "autostop"
      ELSE IF Abs(s.interpGameTime - e.turn * Milli) < DriftWindow * Milli
      THEN "advance"
      ELSE "stall"

\* Which arm of the loop's if / else-if chain runs.
LoopBranch(s) ==
  LET e == s.eng[s.playing]
  IN  IF s.lastTime = NULL THEN "first"
      ELSE IF s.externalSeek THEN "seeking"
      ELSE IF s.rewinding /\ e.turn <= RewindGuard THEN "autostop"
      ELSE IF Abs(s.interpGameTime - e.turn * Milli) < DriftWindow * Milli
      THEN "advance"
      ELSE "stall"

\* Mutant: the advance ignores the goal speed in force.
LoopDelta_DefaultRate(s, curTime) ==
  IF LoopBranch(s) = "advance" THEN DefaultUPS * (curTime - s.lastTime) ELSE 0

\* Mutant: a goal speed of 0 is taken as unset and replaced by one turn per
\* second.
LoopDelta_PausedCreeps(s, curTime) ==
  IF LoopBranch(s) = "advance"
  THEN (IF s.goalUPS = 0 THEN 1 ELSE s.goalUPS) * (curTime - s.lastTime)
  ELSE 0

\* delta, in 1/Milli turns
LoopDelta(s, curTime) ==
  IF LoopBranch(s) = "advance" THEN s.goalUPS * (curTime - s.lastTime) ELSE 0

\* Mutant: the rewind auto-stop leaves out controls.pause().
LoopUpdate_NoPause(s, curTime) ==
  LET m == s.playing
      e == s.eng[m]
      b == LoopBranch(s)
  IN  CASE b = "first"    -> s
        [] b = "seeking"  -> IF e.turn = e.seekTo
                             THEN [s EXCEPT !.externalSeek = FALSE]
                             ELSE s
        [] b = "autostop" -> ControlsRewind(s)
        [] b = "advance"  ->
             LET t == s.interpGameTime + LoopDelta(s, curTime)
             IN  MatchSeek([s EXCEPT !.interpGameTime = t], m, ToInt32(t))
        [] OTHER          -> s

\* Mutant: a seek in flight is taken as done on the next frame, wherever
\* the engine is.
LoopUpdate_SeekDone(s, curTime) ==
  LET m == s.playing
      b == LoopBranch(s)
  IN  CASE b = "first"    -> s
        [] b = "seeking"  -> [s EXCEPT !.externalSeek = FALSE]
        [] b = "autostop" -> ControlsPause(ControlsRewind(s))
        [] b = "advance"  ->
             LET t == s.interpGameTime + LoopDelta(s, curTime)
             IN  MatchSeek([s EXCEPT !.interpGameTime = t], m, ToInt32(t))
        [] OTHER          -> s

\* Mutant: outside the drift window the loop still tells the engine to go
\* to the time goal.
LoopUpdate_StallSeeks(s, curTime) ==
  LET m == s.playing
      e == s.eng[m]
      b == LoopBranch(s)
  IN  CASE b = "first"    -> s
        [] b = "seeking"  -> IF e.turn = e.seekTo
                             THEN [s EXCEPT !.externalSeek = FALSE]
                             ELSE s
        [] b = "autostop" -> ControlsPause(ControlsRewind(s))
        [] b = "advance"  ->
             LET t == s.interpGameTime + LoopDelta(s, curTime)
             IN  MatchSeek([s EXCEPT !.interpGameTime = t], m, ToInt32(t))
        [] OTHER          -> MatchSeek(s, m, ToInt32(s.interpGameTime))

\* The if / else-if chain at the head of loop.
LoopUpdate(s, curTime) ==
  LET m == s.playing
      e == s.eng[m]
      b == LoopBranch(s)
  IN  CASE b = "first"    -> s
        [] b = "seeking"  -> IF e.turn = e.seekTo
                             THEN [s EXCEPT !.externalSeek = FALSE]
                             ELSE s
        [] b = "autostop" -> ControlsPause(ControlsRewind(s))
        [] b = "advance"  ->
             LET t == s.interpGameTime + LoopDelta(s, curTime)
             IN  MatchSeek([s EXCEPT !.interpGameTime = t], m, ToInt32(t))
        [] OTHER          -> s

\* Mutant: interpolates also at a goal speed equal to the render rate.
ShouldInterpolate_Leq(s, tps) ==
  /\ s.interpolate
  /\ s.eng[s.playing].turn + 1 < MaxLoadedTurn
  /\ s.goalUPS <= tps

\* conf.interpolate && turn + 1 < deltas.length && goalUPS < rendersPerSecond.tps
ShouldInterpolate(s, tps) ==
  /\ s.interpolate
  /\ s.eng[s.playing].turn + 1 < MaxLoadedTurn
  /\ s.goalUPS < tps

\* Math.min(interpGameTime - match.current.turn, 1), in 1/Milli
Lerp(s) ==
  LET d == s.interpGameTime - s.eng[s.playing].turn * Milli
  IN  IF d < Milli THEN d ELSE Milli

\* Mutant: the update tracker is fed one unit per frame, like the render
\* tracker.
LoopFeed_UnitUpdates(s, delta) ==
  LET s1 == Call(s, "rendersPerSecond.update", 1)
      s2 == Call(s1, "updatesPerSecond.update", Milli)
  IN  Call(s2, "controls.setTime", MaxLoadedTurn)

\* rendersPerSecond.update(curTime, 1); updatesPerSecond.update(curTime,
\* delta); controls.setTime(match.current.turn, match['_farthest'].turn,
\* ...), noted with the farthest turn it passes.  delta in 1/Milli turns.
LoopFeed(s, delta) ==
  LET s1 == Call(s, "rendersPerSecond.update", 1)
      s2 == Call(s1, "updatesPerSecond.update", delta)
  IN  Call(s2, "controls.setTime", MaxLoadedTurn)

\* Mutant: a loop call that finds the drift outside the window requests no
\* further frame.
Loop_StopOnStall(s, curTime, step) ==
  LET s1 == LoopFeed(LoopUpdate(s, curTime), LoopDelta(s, curTime))
      s2 == [Call(s1, "match.compute", ComputeBudget)
               EXCEPT !.eng[s.playing] = EngineCompute(@, step),
                      !.computes = Append(@, ComputeBudget)]
      s3 == [s2 EXCEPT !.lastTime = curTime]
  IN  IF LoopBranch(s) = "stall" THEN s3 ELSE RequestFrame(s3)

\* loop(curTime), up to the frame it requests: the state it leaves.
Loop(s, curTime, step) ==
  LET s1 == LoopFeed(LoopUpdate(s, curTime), LoopDelta(s, curTime))
      s2 == [Call(s1, "match.compute", ComputeBudget)
               EXCEPT !.eng[s.playing] = EngineCompute(@, step),
                      !.computes = Append(@, ComputeBudget)]
      s3 == [s2 EXCEPT !.lastTime = curTime]
  IN  RequestFrame(s3)

\* The record of one loop call: s the state it started in, t the state it
\* left, tps the render rate it read.  render and lerp are the arguments of
\* its renderer.render call.
LoopEvent(s, t, tps) ==
  [op |-> "loop", seeks |-> t.seeks, computes |-> t.computes,
   frames |-> t.frames, calls |-> t.calls, err |-> FALSE,
   branch |-> LoopBranch(s),
   render |-> IF ShouldInterpolate(t, tps) THEN "lerp" ELSE "exact",
   lerp |-> IF ShouldInterpolate(t, tps) THEN Lerp(t) ELSE 0]

\* The loop reads timestamps only through curTime - lastTime, so the clock's
\* origin is moved to the frame just recorded: timestamps stay bounded.
Rebase(s) == IF s.lastTime = NULL THEN s ELSE [s EXCEPT !.lastTime = 0]

\* ------------------------------------------------------------- Client
\* runMatch, for the match (currentGame, currentMatch)
RunMatch(s) ==
  LET s1 == ClearScreen(s)
      m  == <<s1.games[s1.currentGame + 1], s1.currentMatch>>
      s2 == [s1 EXCEPT !.playing = m,
                       !.goalUPS = DefaultUPS,
                       !.rewinding = FALSE,
                       !.interpGameTime = 0,
                       !.lastTime = NULL,
                       !.externalSeek = FALSE,
                       !.listeners = @ \cup {m},
                       !.raf = {[cb EXCEPT !.cur = FALSE] : cb \in @}]
  IN  RequestFrame(s2)

Throw(s) == [s EXCEPT !.err = TRUE]

\* Mutant: the screen is cleared before the index is checked.
SetGame_ClearFirst(s, game) ==
  IF s.err THEN s
  ELSE IF game < 0 \/ game >= Len(s.games) THEN Throw(ClearScreen(s))
  ELSE [ClearScreen(s) EXCEPT !.currentGame = game]

\* Client.setGame(game)
SetGame(s, game) ==
  IF s.err THEN s
  ELSE IF game < 0 \/ game >= Len(s.games) THEN Throw(s)
  ELSE [ClearScreen(s) EXCEPT !.currentGame = game]

SetMatch(s, match) ==
  IF s.err THEN s
  ELSE IF s.currentGame \notin 0..(Len(s.games) - 1) THEN Throw(s)
  ELSE IF match < 0 \/ match >= MatchCount(s.games[s.currentGame + 1]) THEN Throw(s)
  ELSE RunMatch([ClearScreen(s) EXCEPT !.currentMatch = match])

\* controls.onGameLoaded(data), for the file of game g
OnGameLoaded(s, g) ==
  LET s1 == [s EXCEPT !.games = Append(@, g),
                      !.eng = [m \in MatchRefs |->
                                 IF m[1] = g THEN NewMatch ELSE @[m]]]
  IN  IF Len(s1.games) = 1 THEN SetMatch(SetGame(s1, 0), 0) ELSE s1

\* this.games.splice(game, 1)
Splice(s, game) ==
  IF s.err \/ game < 0 \/ game >= Len(s.games) THEN s
  ELSE [s EXCEPT !.games = [i \in 1..(Len(@) - 1) |->
                              IF i <= game THEN @[i] ELSE @[i + 1]]]

\* stats.onNextMatch
OnNextMatch(s) ==
  IF s.currentGame < 0 THEN s
  ELSE IF s.currentGame >= Len(s.games) THEN Throw(s)
  ELSE IF s.currentMatch < MatchCount(s.games[s.currentGame + 1]) - 1
       THEN SetMatch(s, s.currentMatch + 1)
  ELSE IF s.currentGame < Len(s.games) - 1
       THEN SetMatch(SetGame(s, s.currentGame + 1), 0)
  ELSE s

\* Mutant: stepping back into the previous game selects its first match.
OnPreviousMatch_FirstMatch(s) ==
  IF s.currentMatch > 0 THEN SetMatch(s, s.currentMatch - 1)
  ELSE IF s.currentGame > 0
       THEN SetMatch(SetGame(s, s.currentGame - 1), 0)
  ELSE s

\* stats.onPreviousMatch
OnPreviousMatch(s) ==
  IF s.currentMatch > 0 THEN SetMatch(s, s.currentMatch - 1)
  ELSE IF s.currentGame > 0
       THEN LET s1 == SetGame(s, s.currentGame - 1)
            IN  IF s1.err THEN s1
                ELSE SetMatch(s1, MatchCount(s1.games[s1.currentGame + 1]) - 1)
  ELSE s

\* stats.removeGame(game)
RemoveGameCallback(s, game) ==
  IF game > s.currentGame THEN Splice(s, game)
  ELSE IF s.currentGame = game
       THEN IF game = 0
            THEN IF Len(s.games) > 1
                 THEN Splice(SetMatch(SetGame(s, 0), 0), game)
                 ELSE [ClearScreen(Splice(s, game)) EXCEPT !.currentGame = -1,
                                                           !.currentMatch = 0]
            ELSE Splice(SetMatch(SetGame(s, game - 1), 0), game)
  ELSE [Splice(s, game) EXCEPT !.currentGame = game - 1]

\* ------------------------------------------------------------ actions
Init ==
  /\ games = <<>>
  /\ currentGame = UNDEFINED
  /\ currentMatch = UNDEFINED
  /\ loopID = UNDEFINED
  /\ raf = {}
  /\ reading = {}
  /\ playing = NoMatch
  /\ goalUPS = DefaultUPS
  /\ rewinding = FALSE
  /\ interpGameTime = 0
  /\ lastTime = NULL
  /\ externalSeek = FALSE
  /\ listeners = {}
  /\ eng = [m \in MatchRefs |-> NewMatch]
  /\ interpolate = TRUE
  /\ imgs = [start |-> FALSE, ff |-> FALSE, rw |-> FALSE]
  /\ destroyed = FALSE
  /\ lastID = 1
  /\ originalBodies = <<>>
  /\ idA = <<>>
  /\ idT = <<>>
  /\ tree = TRUE
  /\ ev = Event("init", St)

\* upload.onchange -> Controls.loadMatch(files)
\* A file is one Game identity here, so it is not uploaded again while its
\* Game is listed, being read, or still held by a timeline listener.
LoadMatch(g) ==
  /\ g \notin reading
  /\ \A i \in 1..Len(games) : games[i] # g
  /\ \A m \in listeners : m[1] # g
  /\ \E s \in {[ResetButtons(St) EXCEPT !.reading = @ \cup {g}]} :
       Commit(s) /\ ev' = Event("loadMatch", s)

\* reader.onload
ReaderLoaded(g) ==
  /\ g \in reading
  /\ \E s \in {OnGameLoaded([St EXCEPT !.reading = @ \ {g}], g)} :
       Commit(s) /\ ev' = Event("onGameLoaded", s)

\* A pending animation frame of the latest runMatch closure fires.  (A frame
\* requested by an earlier closure would run that closure's loop; raf keeps
\* such frames, marked cur = FALSE, and they are never taken here.)
Tick(curTime, tps, step) ==
  /\ \E cb \in raf :
       /\ cb.cur
       /\ \E s \in {[St EXCEPT !.raf = @ \ {cb}]} :
            \E t \in {Loop(s, curTime, step)} :
              \E u \in {Rebase(t)} :
                Commit(u) /\ ev' = LoopEvent(s, t, tps)

Pause ==
  /\ playing # NoMatch
  /\ \E s \in {ControlsPause(St)} : Commit(s) /\ ev' = Event("pause", s)

Forward ==
  /\ playing # NoMatch
  /\ \E s \in {ControlsForward(St)} : Commit(s) /\ ev' = Event("forward", s)

Rewind ==
  /\ playing # NoMatch
  /\ \E s \in {ControlsRewind(St)} : Commit(s) /\ ev' = Event("rewind", s)

Restart ==
  /\ playing # NoMatch
  /\ \E s \in {ControlsRestart(St)} : Commit(s) /\ ev' = Event("restart", s)

\* mousedown on the timeline: every registered listener runs
RECURSIVE RunListeners(_, _, _)
RunListeners(s, ms, offsetX) ==
  IF ms = {} THEN s
  ELSE LET m == CHOOSE x \in ms : \A y \in ms : <<x[1], x[2]>> = <<y[1], y[2]>>
                                    \/ x[1] < y[1] \/ (x[1] = y[1] /\ x[2] < y[2])
       IN  RunListeners(TimelineListener(s, m, offsetX), ms \ {m}, offsetX)

Scrub(offsetX) ==
  /\ listeners # {}
  /\ \E s \in {RunListeners(St, listeners, offsetX)} :
       Commit(s) /\ ev' = Event("scrub", s)

\* keydown "b"
ToggleInterpolation ==
  /\ playing # NoMatch
  /\ \E s \in {[St EXCEPT !.interpolate = ~@]} :
       Commit(s) /\ ev' = Event("keyB", s)

\* stats.gotoMatch(game, match)
GotoMatch(game, match) ==
  /\ playing # NoMatch
  /\ \E s \in {SetMatch(SetGame(St, game), match)} :
       Commit(s) /\ ev' = Event("gotoMatch", s)

\* stats.onNextMatch()
NextMatch ==
  /\ playing # NoMatch
  /\ \E s \in {OnNextMatch(St)} : Commit(s) /\ ev' = Event("nextMatch", s)

\* stats.onPreviousMatch()
PreviousMatch ==
  /\ playing # NoMatch
  /\ \E s \in {OnPreviousMatch(St)} : Commit(s) /\ ev' = Event("previousMatch", s)

\* stats.removeGame(game), from the remove button of a listed game
RemoveGame(game) ==
  /\ playing # NoMatch
  /\ game \in 0..(Len(games) - 1)
  /\ \E s \in {RemoveGameCallback(St, game)} :
       Commit(s) /\ ev' = Event("removeGame", s)

\* controls.destroy()
Destroy ==
  /\ ~destroyed
  /\ \E s \in {ControlsDestroy(St)} : Commit(s) /\ ev' = Event("destroy", s)

\* ------------------------------------------ the playback specification
\* One single-match game is uploaded and played with the controls, at a
\* steady render rate.
SteadyRate == CHOOSE r \in RenderRates : r > DefaultUPS
PlayTick == \E curTime \in FrameTimes, step \in ComputeSteps :
              Tick(curTime, SteadyRate, step)
PlayScrub == \E x \in OffsetXs : Scrub(x)

Next ==
  \/ LoadMatch(1)
  \/ ReaderLoaded(1)
  \/ PlayTick
  \/ Pause
  \/ Forward
  \/ Rewind
  \/ Restart
  \/ PlayScrub

Spec == Init /\ [][Next]_vars

\* ------------------------------------------ the rendering specification
\* The same game played with the toggles while the measured render rate
\* varies and interpolation is switched on and off.
\* Frames arrive one default-rate turn apart.
RenderTick == \E tps \in RenderRates, step \in ComputeSteps :
                Tick(Milli \div DefaultUPS, tps, step)

RenderNext ==
  \/ LoadMatch(1)
  \/ ReaderLoaded(1)
  \/ RenderTick
  \/ Pause
  \/ Forward
  \/ Rewind
  \/ ToggleInterpolation

RenderSpec == Init /\ [][RenderNext]_vars

\* ------------------------------------------- the liveness specification
\* The playback specification with frames one default-rate turn apart, and
\* the scheduling it relies on: the browser runs every requested animation
\* frame, and the engine's compute moves at least one turn toward its seek
\* target again and again (compute calls that achieve nothing may come in
\* between).
ProgressTick == \E step \in {"one", "all"} :
                  Tick(Milli \div DefaultUPS, SteadyRate, step)
IdleTick == Tick(Milli \div DefaultUPS, SteadyRate, "none")

LiveNext ==
  \/ LoadMatch(1)
  \/ ReaderLoaded(1)
  \/ ProgressTick
  \/ IdleTick
  \/ Pause
  \/ Forward
  \/ Rewind
  \/ Restart
  \/ PlayScrub

LiveSpec == Init /\ [][LiveNext]_vars /\ WF_vars(ProgressTick)

\* ------------------------------------------- the scenario specification
\* One game played with pause, forward and restart, with frames a second
\* apart.
ScenarioTick == \E step \in ComputeSteps : Tick(Milli, SteadyRate, step)

ScenarioNext ==
  \/ LoadMatch(1)
  \/ ReaderLoaded(1)
  \/ ScenarioTick
  \/ Pause
  \/ Forward
  \/ Restart

ScenarioSpec == Init /\ [][ScenarioNext]_vars

\* ------------------------------------------ the scrubbing specification
\* One game played at the default rate and paused, with pointer-downs on
\* the timeline at and around its edges.
ScrubTick == \E step \in ComputeSteps : Tick(Milli \div DefaultUPS, SteadyRate, step)
EdgeScrub == \E x \in EdgeOffsetXs : Scrub(x)

ScrubNext ==
  \/ LoadMatch(1)
  \/ ReaderLoaded(1)
  \/ ScrubTick
  \/ Pause
  \/ EdgeScrub

ScrubSpec == Init /\ [][ScrubNext]_vars

\* ----------------------------------------- the navigation specification
\* Game files are uploaded, listed matches are selected and stepped through,
\* games are removed and the controls are torn down, while the loop runs at
\* the default rate with frames a second apart and an engine that keeps up.
NavTick == Tick(Milli, SteadyRate, "all")
NavLoad == \E g \in GameIds : LoadMatch(g)
NavLoaded == \E g \in GameIds : ReaderLoaded(g)
NavGoto == \E game \in 0..(Len(games) - 1) :
             \E match \in 0..(MatchCount(games[game + 1]) - 1) :
               GotoMatch(game, match)
NavRemove == \E game \in 0..(MaxGames - 1) : RemoveGame(game)

NavNext ==
  \/ NavLoad
  \/ NavLoaded
  \/ NavTick
  \/ NavGoto
  \/ NextMatch
  \/ PreviousMatch
  \/ NavRemove
  \/ Destroy

NavSpec == Init /\ [][NavNext]_vars

\* ======================================================== properties
Turn == eng[playing].turn
SeekTo == eng[playing].seekTo
Drift == Abs(interpGameTime - Turn * Milli)

\* The step is a loop call.
LoopStep == ev'.op = "loop"
\* The step is a loop call at curTime - lastTime = dt.
LoopStepAt(dt) ==
  LoopStep /\ \E tps \in RenderRates, step \in ComputeSteps : Tick(dt, tps, step)
\* The step is a loop call that read render rate tps.
LoopStepRate(tps) ==
  LoopStep /\ \E dt \in FrameTimes, step \in ComputeSteps : Tick(dt, tps, step)

\* The loop call starts on its rewind auto-stop arm.
AtAutoStop ==
  lastTime # NULL /\ ~externalSeek /\ rewinding /\ Turn <= RewindGuard

\* C1, as claimed: a loop call other than the first that starts with no seek
\* in flight, rewinding and current.turn <= 10 leaves goalUPS at the default
\* forward rate and rewinding false.
C1_AutoStopLeavesDefaultRate ==
  [][(LoopStep /\ AtAutoStop) => (goalUPS' = DefaultUPS /\ ~rewinding')]_vars

\* C1, amended: such a loop call leaves goalUPS at 0 (paused) and rewinding
\* false.
C1_AutoStopPauses ==
  [][(LoopStep /\ AtAutoStop) => (goalUPS' = 0 /\ ~rewinding')]_vars

C1_Witness ==
  ev.op = "loop" /\ ev.branch = "autostop" /\ goalUPS = 0 /\ ~rewinding

\* C2, as claimed: in every reachable playback state, the pause toggle twice
\* in a row, or the forward toggle twice in a row, returns goalUPS to its
\* value before the first toggle.
C2_ToggleTwiceRestores ==
  playing # NoMatch =>
    /\ ControlsPause(ControlsPause(St)).goalUPS = goalUPS
    /\ ControlsForward(ControlsForward(St)).goalUPS = goalUPS

\* C2, amended: the pause toggle twice in a row returns goalUPS to its value
\* if that was 0 or the default rate, the forward toggle twice in a row if
\* that was the default or the fast rate; from any other value the pair
\* leaves goalUPS at the default rate.
C2_ToggleTwice ==
  playing # NoMatch =>
    /\ ControlsPause(ControlsPause(St)).goalUPS =
         (IF goalUPS \in {0, DefaultUPS} THEN goalUPS ELSE DefaultUPS)
    /\ ControlsForward(ControlsForward(St)).goalUPS =
         (IF goalUPS \in {DefaultUPS, FastUPS} THEN goalUPS ELSE DefaultUPS)

C2_Witness ==
  /\ ev.op = "pause" /\ goalUPS = 0
  /\ ControlsPause(ControlsPause(St)).goalUPS = 0
  /\ ControlsForward(ControlsForward(St)).goalUPS = DefaultUPS

\* C3, as claimed: a loop call with no seek in flight and drift < 10 adds
\* goalUPS * dt / 1000 to interpGameTime, dt being the time since the last
\* frame.
C3_AdvanceWheneverInWindow ==
  [][\A dt \in FrameTimes :
       (lastTime # NULL /\ ~externalSeek /\ Drift < DriftWindow * Milli
          /\ LoopStepAt(dt))
       => interpGameTime' = interpGameTime + goalUPS * dt]_vars

\* C3, amended: ... unless the call starts rewinding with current.turn <= 10
\* (the auto-stop arm, which leaves interpGameTime alone).
C3_TimeAdvance ==
  [][\A dt \in FrameTimes :
       (lastTime # NULL /\ ~externalSeek
          /\ ~(rewinding /\ Turn <= RewindGuard)
          /\ Drift < DriftWindow * Milli
          /\ LoopStepAt(dt))
       => interpGameTime' = interpGameTime + goalUPS * dt]_vars

C3_Witness ==
  ev.op = "loop" /\ ev.branch = "advance" /\ goalUPS = FastUPS
    /\ interpGameTime > 0

\* C5: a loop call that starts with a seek in flight leaves interpGameTime
\* alone and calls match.seek not at all; it clears externalSeek only if
\* current.turn equals the engine's seek target (and then always, unless it
\* is the first call), and leaves it true otherwise.
C5_SeekFreezesTime ==
  [][(LoopStep /\ externalSeek) =>
       /\ interpGameTime' = interpGameTime
       /\ ev'.seeks = <<>>
       /\ (~externalSeek' => Turn = SeekTo)
       /\ (Turn # SeekTo => externalSeek')
       /\ ((lastTime # NULL /\ Turn = SeekTo) => ~externalSeek')]_vars

C5_Witness ==
  ev.op = "loop" /\ ev.branch = "seeking" /\ externalSeek /\ Turn # SeekTo

\* C8: every target the controller passes to match.seek lies in
\* 0..MaxLoadedTurn.
C8_SeekTargetsInRange ==
  \A i \in 1..Len(ev.seeks) :
    ev.seeks[i].round >= 0 /\ ev.seeks[i].round <= MaxLoadedTurn

\* C9, as claimed: after a loop call with no seek in flight,
\* |interpGameTime - current.turn| < 10.
C9_DriftBelowWindow ==
  (ev.op = "loop" /\ ev.branch # "seeking" /\ ~externalSeek)
    => Drift < DriftWindow * Milli

\* C9, amended: a loop call changes interpGameTime only if it starts with
\* no seek in flight and |interpGameTime - current.turn| < 10.  (The advance
\* is added after that test and the engine may lag, so the difference can be
\* 10 or more once the call ends; interpGameTime then stalls.)
C9_AdvanceOnlyInWindow ==
  [][(LoopStep /\ interpGameTime' # interpGameTime)
       => (lastTime # NULL /\ ~externalSeek /\ Drift < DriftWindow * Milli)]_vars

C9_Witness ==
  ev.op = "loop" /\ ev.branch = "advance" /\ Drift >= DriftWindow * Milli

\* C10: a loop call renders an interpolated frame exactly if conf.interpolate
\* is set, current.turn + 1 < deltas.length and goalUPS is below the render
\* rate it measured (all three read after the call's update and compute);
\* otherwise it renders an exact frame.
C10_InterpolationGating ==
  [][\A tps \in RenderRates :
       LoopStepRate(tps) =>
         /\ ev'.render \in {"lerp", "exact"}
         /\ ev'.render = "lerp" <=>
              (/\ interpolate'
               /\ eng'[playing'].turn + 1 < MaxLoadedTurn
               /\ goalUPS' < tps)]_vars

C10_Witness ==
  /\ ev.op = "loop" /\ ev.render = "exact"
  /\ interpolate /\ Turn + 1 < MaxLoadedTurn /\ goalUPS = DefaultUPS

\* C6: at most one animation frame is pending, it is the one loopID names
\* and it was requested by the latest runMatch call or its loop: a frame of
\* an earlier runMatch call's loop is cancelled before the new loop is
\* scheduled.
C6_OnePendingFrame ==
  /\ Cardinality(raf) <= 1
  /\ \A cb \in raf : cb.cur /\ cb.id = loopID

C6_Witness ==
  /\ ev.op \in {"nextMatch", "previousMatch", "gotoMatch", "removeGame"}
  /\ ~ev.err
  /\ lastTime = NULL
  /\ playing # <<1, 0>>
  /\ Cardinality(raf) = 1
  /\ eng[<<1, 0>>].turn > 0

\* C7: once controls.destroy() has been called no animation frame is
\* pending.
C7_DestroyStopsLoop == destroyed => raf = {}

\* The latest handler was a seek intent (restart or a timeline scrub).
AfterSeekIntent == ev.op \in {"restart", "scrub"}

\* The previous step was the loop call that found the engine on its seek
\* target and cleared externalSeek.
SeekJustLanded ==
  ev.op = "loop" /\ ev.branch = "seeking" /\ ~externalSeek

\* C4, as claimed: a seek in flight is followed by externalSeek = FALSE or
\* by a new seek intent, and the loop call after the one that cleared
\* externalSeek adds goalUPS * dt / 1000 to interpGameTime whenever goalUPS
\* is not 0.
C4_SeekLandsAndResumes ==
  /\ (externalSeek /\ ~AfterSeekIntent) ~> (~externalSeek \/ AfterSeekIntent)
  /\ [][\A dt \in FrameTimes :
          (SeekJustLanded /\ goalUPS # 0 /\ LoopStepAt(dt))
          => interpGameTime' = interpGameTime + goalUPS * dt]_vars

\* C4, amended: ... whenever goalUPS is not 0, unless that call starts
\* rewinding with current.turn <= 10 (it then stops the rewind and pauses).
C4_SeekLandsAndResumesForward ==
  /\ (externalSeek /\ ~AfterSeekIntent) ~> (~externalSeek \/ AfterSeekIntent)
  /\ [][\A dt \in FrameTimes :
          (SeekJustLanded /\ goalUPS # 0
             /\ ~(rewinding /\ Turn <= RewindGuard) /\ LoopStepAt(dt))
          => interpGameTime' = interpGameTime + goalUPS * dt]_vars

C4_Witness ==
  /\ ev.op = "loop" /\ ev.branch = "advance" /\ ~externalSeek
  /\ goalUPS = FastUPS
  /\ Turn = MathFloor(MaxLoadedTurn * 200, CanvasWidth)
  /\ interpGameTime = Turn * Milli + FastUPS * (Milli \div DefaultUPS)

\* C11: whenever a loop call renders an interpolated frame, the lerp it
\* passes to the renderer lies in [0, 1].
C11_LerpInUnitRange ==
  (ev.op = "loop" /\ ev.render = "lerp") => (ev.lerp >= 0 /\ ev.lerp <= Milli)

\* C12: the pause toggle sets goalUPS to the default rate if it was 0 and
\* to 0 otherwise, and sets rewinding to false.
C12_PauseToggle ==
  [][ev'.op = "pause" =>
       /\ goalUPS' = (IF goalUPS = 0 THEN DefaultUPS ELSE 0)
       /\ ~rewinding']_vars

C12_Witness ==
  ev.op = "pause" /\ goalUPS = 0 /\ ~rewinding /\ interpGameTime < Turn * Milli

\* C13: the forward toggle sets goalUPS to the default rate if it was the
\* fast rate and to the fast rate otherwise, and sets rewinding to false.
C13_ForwardToggle ==
  [][ev'.op = "forward" =>
       /\ goalUPS' = (IF goalUPS = FastUPS THEN DefaultUPS ELSE FastUPS)
       /\ ~rewinding']_vars

C13_Witness ==
  ev.op = "forward" /\ goalUPS = FastUPS /\ ~rewinding
    /\ interpGameTime < Turn * Milli

\* C14: in every reachable state the rewind toggle, if rewinding is set,
\* sets goalUPS to the default rate and rewinding to false, and otherwise
\* sets goalUPS to the rewind rate and rewinding to true.
C14_RewindToggle ==
  [][ev'.op = "rewind" =>
       IF rewinding
       THEN goalUPS' = DefaultUPS /\ ~rewinding'
       ELSE goalUPS' = RewindUPS /\ rewinding']_vars

C14_Witness ==
  ev.op = "rewind" /\ goalUPS = DefaultUPS /\ ~rewinding
    /\ interpGameTime < Turn * Milli

\* What controls.onSeek(turn) leaves when called in the current state.
SeekTransition(s, turn) ==
  /\ s.externalSeek
  /\ s.seeks = <<[m |-> playing, round |-> turn]>>
  /\ s.interpGameTime = turn * Milli
  /\ s.goalUPS = goalUPS
  /\ s.rewinding = rewinding
  /\ s.lastTime = lastTime

\* C15: onSeek(turn) sets externalSeek, calls match.seek(turn) once and sets
\* interpGameTime to turn, leaving goalUPS, rewinding and lastTime alone;
\* controls.restart() is onSeek(0), and every restart step has that effect.
C15_SeekTransition ==
  /\ [](playing # NoMatch =>
          /\ \A turn \in 0..MaxLoadedTurn : SeekTransition(OnSeek(St, turn), turn)
          /\ ControlsRestart(St) = OnSeek(St, 0))
  /\ [][ev'.op = "restart" =>
          /\ externalSeek' /\ interpGameTime' = 0
          /\ ev'.seeks = <<[m |-> playing, round |-> 0]>>
          /\ goalUPS' = goalUPS /\ rewinding' = rewinding
          /\ lastTime' = lastTime]_vars

C15_Witness ==
  /\ ev.op = "restart" /\ externalSeek /\ interpGameTime = 0
  /\ goalUPS = FastUPS /\ Turn > 0 /\ SeekTo = 0

\* The previous step was the forward toggle, the match is at turn 0 with
\* interpGameTime 0, no seek is in flight and a frame has been seen.
AfterForwardAtStart ==
  /\ ev.op = "forward" /\ lastTime # NULL /\ ~externalSeek
  /\ interpGameTime = 0 /\ Turn = 0

\* C16, as claimed: the forward toggle of a paused game sets goalUPS to 10,
\* and a loop call a second later, from turn 0, leaves interpGameTime at 10
\* and calls match.seek(10).
C16_ForwardFromPauseDefault ==
  /\ [][(ev'.op = "forward" /\ goalUPS = 0) => goalUPS' = DefaultUPS]_vars
  /\ [][(AfterForwardAtStart /\ goalUPS # DefaultUPS /\ LoopStepAt(Milli))
         => /\ interpGameTime' = 10 * Milli
            /\ ev'.seeks = <<[m |-> playing, round |-> 10]>>]_vars

\* C16, amended: the forward toggle of a paused game sets goalUPS to the
\* fast rate 300, and a loop call a second later, from turn 0, leaves
\* interpGameTime at 300 and calls match.seek(300).
C16_ForwardFromPauseFast ==
  /\ [][(ev'.op = "forward" /\ goalUPS = 0) => goalUPS' = FastUPS]_vars
  /\ [][(AfterForwardAtStart /\ goalUPS # DefaultUPS /\ LoopStepAt(Milli))
         => /\ interpGameTime' = FastUPS * Milli
            /\ ev'.seeks = <<[m |-> playing, round |-> FastUPS]>>]_vars

C16_Witness ==
  /\ ev.op = "loop" /\ ev.branch = "advance" /\ goalUPS = FastUPS
  /\ interpGameTime = FastUPS * Milli
  /\ ev.seeks = <<[m |-> playing, round |-> FastUPS]>>

\* x clamped to [0, CanvasWidth]
ClampToCanvas(x) == IF x < 0 THEN 0 ELSE IF x > CanvasWidth THEN CanvasWidth ELSE x

\* C17: a pointer-down on the timeline at offset x performs the seek
\* transition with turn = floor(farthest turn * x / width), x clamped to
\* [0, width], so that the target lies in 0..MaxLoadedTurn.
C17_ScrubMapping ==
  [][\A x \in EdgeOffsetXs :
       (ev'.op = "scrub" /\ Scrub(x)) =>
         LET turn == MathFloor(MaxLoadedTurn * ClampToCanvas(x), CanvasWidth)
         IN  /\ externalSeek'
             /\ interpGameTime' = turn * Milli
             /\ ev'.seeks = <<[m |-> playing, round |-> turn]>>
             /\ turn >= 0 /\ turn <= MaxLoadedTurn]_vars

\* The previous step was the rewind toggle, with the engine at turn 10 or
\* below, no seek in flight and a frame already seen.
AfterRewindNearStart ==
  /\ ev.op = "rewind" /\ Turn <= RewindGuard
  /\ ~externalSeek /\ lastTime # NULL

\* The loop call ends paused, with no exception and its next frame pending.
SettledInPause ==
  /\ goalUPS' = 0 /\ ~rewinding'
  /\ ~ev'.err
  /\ \E cb \in raf' : cb.cur /\ cb.id = loopID'

\* C18, as claimed: the loop call that follows a rewind toggle invoked at
\* current.turn <= 10 with no seek in flight ends paused with rewinding
\* false, raises nothing and requests the next frame.
C18_RewindNearStartPauses ==
  [][(AfterRewindNearStart /\ LoopStep) => SettledInPause]_vars

\* C18, amended: ... a rewind toggle that switched rewinding on ... (a
\* toggle that switched it off leaves the default rate, and the loop call
\* advances).
C18_RewindOnNearStartPauses ==
  [][(AfterRewindNearStart /\ rewinding /\ LoopStep) => SettledInPause]_vars

C18_Witness ==
  /\ ev.op = "loop" /\ ev.branch = "autostop" /\ ~ev.err
  /\ goalUPS = 0 /\ Turn > 0 /\ Turn <= RewindGuard
  /\ \E cb \in raf : cb.cur /\ cb.id = loopID

\* C19: every loop call, on whichever arm, calls match.compute exactly once
\* with the 5 ms budget, renders exactly one frame and requests exactly one
\* animation frame, which is then the one pending.
C19_LoopKeepsRunning ==
  [][LoopStep =>
       /\ ev'.branch \in {"first", "seeking", "autostop", "advance", "stall"}
       /\ ev'.computes = <<ComputeBudget>>
       /\ ev'.render \in {"lerp", "exact"}
       /\ ev'.frames = 1
       /\ raf' = {[id |-> loopID', cur |-> TRUE]}]_vars

C19_Witness ==
  /\ ev.op = "loop" /\ ev.branch = "stall"
  /\ ev.computes = <<ComputeBudget>> /\ ev.frames = 1
  /\ raf = {[id |-> loopID, cur |-> TRUE]}

\* C20: the first loop call of a match (lastTime is null) leaves
\* interpGameTime, goalUPS, rewinding and externalSeek alone and calls
\* match.seek not at all, whether or not a seek is in flight or rewinding is
\* set, and records its timestamp in lastTime.
C20_FirstTick ==
  [][(LoopStep /\ lastTime = NULL) =>
       /\ ev'.branch = "first"
       /\ interpGameTime' = interpGameTime
       /\ goalUPS' = goalUPS
       /\ rewinding' = rewinding
       /\ externalSeek' = externalSeek
       /\ ev'.seeks = <<>>
       /\ lastTime' # NULL]_vars

C20_Witness ==
  /\ ev.op = "loop" /\ ev.branch = "first"
  /\ externalSeek /\ rewinding /\ Turn = SeekTo /\ lastTime # NULL

\* C21: a loop call other than the first, with no seek in flight, not on its
\* rewind auto-stop arm and with |interpGameTime - current.turn| >= 10,
\* leaves interpGameTime, goalUPS and rewinding alone and calls match.seek
\* not at all.
C21_DriftStall ==
  [][(/\ LoopStep /\ lastTime # NULL /\ ~externalSeek
      /\ ~(rewinding /\ Turn <= RewindGuard)
      /\ Drift >= DriftWindow * Milli)
     => /\ interpGameTime' = interpGameTime
        /\ goalUPS' = goalUPS
        /\ rewinding' = rewinding
        /\ ev'.seeks = <<>>]_vars

C21_Witness ==
  /\ ev.op = "loop" /\ ev.branch = "stall" /\ ev.seeks = <<>>
  /\ goalUPS = FastUPS /\ Drift >= DriftWindow * Milli

\* The latest handler was a loop call on its advance arm at a goal speed
\* other than 0: it changed interpGameTime.
Advanced == ev.op = "loop" /\ ev.branch = "advance" /\ goalUPS # 0

\* C22: from every state of a running match with no seek in flight and
\* goalUPS not 0, as frames keep coming and the engine's compute keeps
\* moving toward its seek target, a loop call on the advance arm changes
\* interpGameTime, unless the playback is paused or a seek is requested
\* first.
C22_StallIsTemporary ==
  (playing # NoMatch /\ ~externalSeek /\ goalUPS # 0)
    ~> (Advanced \/ goalUPS = 0 \/ externalSeek)

\* The largest advance of interpGameTime one loop call can make when frames
\* are the dts ms apart, in 1/Milli turns: the fast rate is the goal speed
\* of largest magnitude.
LargestAdvance(dts) ==
  FastUPS * (CHOOSE d \in dts : \A e \in dts : e <= d)

\* C23: in every state of a running match with no seek in flight,
\* |interpGameTime - current.turn| is at most 10 turns plus the largest
\* advance of one loop call.
C23_BoundedDivergence ==
  (playing # NoMatch /\ ~externalSeek)
    => Drift <= DriftWindow * Milli + LargestAdvance(FrameTimes)

\* Math.floor(x) for x given in 1/Milli turns
FloorTurn(x) == x \div Milli

\* C24: every loop call on the advance arm calls match.seek once, with
\* floor(interpGameTime) of the interpGameTime it has just computed, also
\* when that is negative.
C24_SeekTargetIsFloor ==
  [][(LoopStep /\ ev'.branch = "advance") =>
       ev'.seeks = <<[m |-> playing, round |-> FloorTurn(interpGameTime')]>>]_vars

\* C25: every loop call updates the render tracker once, with 1, and the
\* update tracker once, with goalUPS * dt / 1000 on the advance arm and with
\* 0 on every other arm; controls.setTime comes after both updates and
\* match.compute after controls.setTime, and only the advance arm's
\* match.seek comes before them.
C25_TrackerFeed ==
  [][\A dt \in FrameTimes :
       LoopStepAt(dt) =>
         LET calls == ev'.calls
             n == Len(calls)
             delta == IF ev'.branch = "advance" THEN goalUPS * dt ELSE 0
         IN  /\ ev'.branch \in {"first", "seeking", "autostop", "advance", "stall"}
             /\ n >= 4
             /\ calls[n - 3] = [fn |-> "rendersPerSecond.update", arg |-> 1]
             /\ calls[n - 2] = [fn |-> "updatesPerSecond.update", arg |-> delta]
             /\ calls[n - 1].fn = "controls.setTime"
             /\ calls[n] = [fn |-> "match.compute", arg |-> ComputeBudget]
             /\ \A i \in 1..(n - 4) : calls[i].fn = "match.seek"]_vars

C25_Witness ==
  /\ ev.op = "loop" /\ ev.branch = "advance" /\ goalUPS = RewindUPS
  /\ \E dt \in FrameTimes :
       ev.calls[3] = [fn |-> "updatesPerSecond.update", arg |-> RewindUPS * dt]

\* C26: a loop call that takes its seek arm and ends with the seek still in
\* flight (the engine was not on the seek target) renders an exact frame,
\* never an interpolated one.
C26_ExactFrameWhileSeeking ==
  (ev.op = "loop" /\ ev.branch = "seeking" /\ externalSeek)
    => ev.render = "exact"

\* ------------------------------------------- the second client variant
\* The Client whose runMatch(match, meta) takes the match as a parameter.
\* Its closure variables are kept in the same record fields, so that one
\* call of its handlers can be set against the first variant's.
RunMatchV2(s) ==
  [s EXCEPT !.goalUPS = DefaultUPS,
            !.rewinding = FALSE,
            !.interpGameTime = 0,
            !.lastTime = NULL,
            !.externalSeek = FALSE]

OnTogglePauseV2(s) ==
  [s EXCEPT !.goalUPS = IF s.goalUPS = 0 THEN DefaultUPS ELSE 0,
            !.rewinding = FALSE]

OnToggleForwardV2(s) ==
  [s EXCEPT !.goalUPS = IF s.goalUPS = FastUPS THEN DefaultUPS ELSE FastUPS,
            !.rewinding = FALSE]

OnToggleRewindV2(s) ==
  [s EXCEPT !.goalUPS = IF s.goalUPS = RewindUPS THEN DefaultUPS ELSE RewindUPS,
            !.rewinding = ~s.rewinding]

OnSeekV2(s, turn) ==
  LET s1 == [s EXCEPT !.externalSeek = TRUE]
      s2 == MatchSeek(s1, s.playing, turn)
  IN  [s2 EXCEPT !.interpGameTime = turn * Milli]

\* The mousedown listener on this.controls.canvas.
TimelineListenerV2(s, offsetX) ==
  LET turn == MathFloor(MaxLoadedTurn * offsetX, CanvasWidth)
      s1 == [s EXCEPT !.externalSeek = TRUE]
      s2 == MatchSeek(s1, s.playing, turn)
  IN  [s2 EXCEPT !.interpGameTime = turn * Milli]

\* This variant's Controls (./controls): pause(), forward(), rewind() and
\* restart() invoke the callback of their intent.
ControlsPauseV2(s) == OnTogglePauseV2(s)
ControlsForwardV2(s) == OnToggleForwardV2(s)
ControlsRewindV2(s) == OnToggleRewindV2(s)
ControlsRestartV2(s) == OnSeekV2(s, 0)

\* Mutant: this variant stops a rewind only once the engine is back at
\* turn 0.
LoopUpdateV2_StopAtZero(s, curTime) ==
  LET m == s.playing
      e == s.eng[m]
  IN  IF s.lastTime = NULL THEN s
      ELSE IF s.externalSeek
      THEN (IF e.turn = e.seekTo THEN [s EXCEPT !.externalSeek = FALSE] ELSE s)
      ELSE IF s.rewinding /\ e.turn <= 0
      THEN ControlsPauseV2(ControlsRewindV2(s))
      ELSE IF Abs(s.interpGameTime - e.turn * Milli) < DriftWindow * Milli
      THEN LET t == s.interpGameTime + s.goalUPS * (curTime - s.lastTime)
           IN  MatchSeek([s EXCEPT !.interpGameTime = t], m, ToInt32(t))
      ELSE s

\* The if / else-if chain at the head of this variant's loop.
LoopUpdateV2(s, curTime) ==
  LET m == s.playing
      e == s.eng[m]
  IN  IF s.lastTime = NULL THEN s
      ELSE IF s.externalSeek
      THEN (IF e.turn = e.seekTo THEN [s EXCEPT !.externalSeek = FALSE] ELSE s)
      ELSE IF s.rewinding /\ e.turn <= RewindGuard
      THEN ControlsPauseV2(ControlsRewindV2(s))
      ELSE IF Abs(s.interpGameTime - e.turn * Milli) < DriftWindow * Milli
      THEN LET t == s.interpGameTime + s.goalUPS * (curTime - s.lastTime)
           IN  MatchSeek([s EXCEPT !.interpGameTime = t], m, ToInt32(t))
      ELSE s

\* This variant's loop(curTime), up to its render call.
LoopV2(s, curTime, step) ==
  LET s1 == LoopUpdateV2(s, curTime)
      s2 == [Call(s1, "match.compute", ComputeBudget)
               EXCEPT !.eng[s.playing] = EngineCompute(@, step),
                      !.computes = Append(@, ComputeBudget)]
  IN  [s2 EXCEPT !.lastTime = curTime]

\* What the claim compares: the closure variables, the engine's state and
\* the match.seek and match.compute calls made.
Controller(s) ==
  [goalUPS |-> s.goalUPS, rewinding |-> s.rewinding,
   externalSeek |-> s.externalSeek, interpGameTime |-> s.interpGameTime,
   lastTime |-> s.lastTime, eng |-> s.eng[s.playing],
   seeks |-> s.seeks, computes |-> s.computes]

\* C27: the two variants start a match with the same closure variables, and
\* from every state of a running match each intent (pause, forward, rewind,
\* restart, seek to any loaded turn, timeline click) and each loop call with
\* the same timestamp and the same engine progress leaves both with the
\* same goalUPS, rewinding, externalSeek, interpGameTime and lastTime and
\* the same match.seek and match.compute calls; so the two go through the
\* same sequence of states and calls.
C27_VariantsAgree ==
  playing # NoMatch =>
    /\ Controller(RunMatchV2(St)) = Controller(RunMatch(St))
    /\ Controller(ControlsPauseV2(St)) = Controller(ControlsPause(St))
    /\ Controller(ControlsForwardV2(St)) = Controller(ControlsForward(St))
    /\ Controller(ControlsRewindV2(St)) = Controller(ControlsRewind(St))
    /\ Controller(ControlsRestartV2(St)) = Controller(ControlsRestart(St))
    /\ \A turn \in 0..MaxLoadedTurn :
         Controller(OnSeekV2(St, turn)) = Controller(OnSeek(St, turn))
    /\ \A offsetX \in OffsetXs :
         Controller(TimelineListenerV2(St, offsetX))
           = Controller(TimelineListener(St, playing, offsetX))
    /\ \A curTime \in FrameTimes, step \in ComputeSteps :
         Controller(LoopV2(St, curTime, step)) = Controller(Loop(St, curTime, step))

C27_Witness ==
  /\ AtAutoStop /\ Turn > 0 /\ Drift >= DriftWindow * Milli
  /\ \A curTime \in FrameTimes :
       /\ LoopUpdateV2(St, curTime).goalUPS = 0
       /\ LoopUpdate(St, curTime).goalUPS = 0

\* C28: in every state, whatever the order of pause, forward, rewind and
\* seek intents and loop calls (the rewind auto-stop included), rewinding is
\* true exactly if goalUPS is -100, and goalUPS is one of 0, 10, 300, -100.
C28_DirectionFlag ==
  /\ rewinding <=> goalUPS = RewindUPS
  /\ goalUPS \in {0, DefaultUPS, FastUPS, RewindUPS}

C28_Witness ==
  /\ ev.op = "rewind" /\ rewinding /\ goalUPS = RewindUPS
  /\ externalSeek /\ imgs.rw /\ Turn > RewindGuard

\* C29: the pause, forward and rewind toggles leave interpGameTime,
\* externalSeek and lastTime alone and call neither match.seek nor
\* match.compute (the engine's state is as before), also while a seek is in
\* flight.
C29_TogglesLeaveClock ==
  [][ev'.op \in {"pause", "forward", "rewind"} =>
       /\ interpGameTime' = interpGameTime
       /\ externalSeek' = externalSeek
       /\ lastTime' = lastTime
       /\ ev'.calls = <<>> /\ ev'.seeks = <<>> /\ ev'.computes = <<>>
       /\ eng' = eng]_vars

C29_Witness ==
  /\ ev.op = "forward" /\ goalUPS = DefaultUPS
  /\ externalSeek /\ Turn # SeekTo /\ interpGameTime = SeekTo * Milli
  /\ lastTime # NULL

\* C30: while goalUPS is 0, a loop call leaves interpGameTime alone and, if
\* it calls match.seek, asks for the turn of that unchanged interpGameTime,
\* the same turn as the paused loop call before it; between two paused
\* states only a seek intent (restart or a timeline click) changes
\* interpGameTime.
C30_PausedIsFrozen ==
  /\ [][(LoopStep /\ goalUPS = 0) =>
          /\ interpGameTime' = interpGameTime
          /\ \/ ev'.seeks = <<>>
             \/ ev'.seeks = <<[m |-> playing, round |-> ToInt32(interpGameTime)]>>
          /\ (ev.op = "loop" /\ ev.seeks # <<>> /\ ev'.seeks # <<>>)
               => ev'.seeks = ev.seeks]_vars
  /\ [][(goalUPS = 0 /\ goalUPS' = 0 /\ interpGameTime' # interpGameTime)
          => ev'.op \in {"restart", "scrub"}]_vars

C30_Witness ==
  /\ ev.op = "loop" /\ ev.branch = "advance" /\ goalUPS = 0
  /\ interpGameTime > ToInt32(interpGameTime) * Milli
  /\ ev.seeks = <<[m |-> playing, round |-> ToInt32(interpGameTime)]>>
  /\ Turn # ToInt32(interpGameTime)

\* ------------------------------------------- the switching specification
\* The game file with two matches is uploaded and its matches are stepped
\* through with the next / previous match buttons, while the running match
\* is paused, played fast, rewound and scrubbed; frames come a second apart
\* and the engine keeps up.
TwoMatchGame == CHOOSE g \in GameIds : MatchCount(g) > 1

SwitchNext ==
  \/ LoadMatch(TwoMatchGame)
  \/ ReaderLoaded(TwoMatchGame)
  \/ NavTick
  \/ Pause
  \/ Forward
  \/ Rewind
  \/ NextMatch
  \/ PreviousMatch
  \/ PlayScrub

SwitchSpec == Init /\ [][SwitchNext]_vars

\* C31: while a match is running, the play / pause button shows the play
\* icon exactly if goalUPS is 0, the forward button its active icon exactly
\* if goalUPS is 300, and the rewind button its active icon exactly if
\* rewinding is set.
C31_ButtonsMatchState ==
  playing # NoMatch =>
    /\ imgs.start <=> goalUPS = 0
    /\ imgs.ff <=> goalUPS = FastUPS
    /\ imgs.rw <=> rewinding


\* -------------------------------------------- the restarting specification
\* The two-match game is uploaded and its matches are started again and
\* again with the next / previous match buttons, with an occasional pause;
\* frames keep coming a second apart and the engine keeps up.
RestartNext ==
  \/ LoadMatch(TwoMatchGame)
  \/ ReaderLoaded(TwoMatchGame)
  \/ NavTick
  \/ Pause
  \/ NextMatch
  \/ PreviousMatch

RestartSpec == Init /\ [][RestartNext]_vars /\ WF_vars(NavTick)

\* The first loop call of a match loop has just run and the playback state
\* is still the one runMatch created.
FirstTickOfFreshMatch ==
  /\ ev.op = "loop" /\ ev.branch = "first"
  /\ goalUPS = DefaultUPS /\ ~rewinding /\ ~externalSeek
  /\ interpGameTime = 0

\* C32: once the loop of a match that setMatch started has made its first
\* call on the fresh playback state (goalUPS 10, interpGameTime 0, no seek
\* in flight), a later loop call takes the advance arm and moves
\* interpGameTime, unless a control or a match button is used first; also
\* for a match that was played before and whose engine is at turn 10 or
\* more.
C32_RestartedMatchPlays ==
  FirstTickOfFreshMatch ~> (Advanced \/ ev.op # "loop")


\* C33: a pointer-down on the timeline makes exactly one match.seek call,
\* on the match of the running loop; a match that was played earlier gets
\* none.
C33_ScrubSeeksRunningMatchOnly ==
  ev.op = "scrub" =>
    /\ Len(ev.seeks) = 1
    /\ \A i \in 1..Len(ev.seeks) : ev.seeks[i].m = playing


\* A frame of the running match loop is pending.
TickPending == \E cb \in raf : cb.cur

\* C34: whenever a frame of the running loop is pending, the match that
\* loop plays is match number currentMatch of games[currentGame].
C34_LoopPlaysSelectedMatch ==
  TickPending =>
    /\ currentGame \in 0..(Len(games) - 1)
    /\ playing = <<games[currentGame + 1], currentMatch>>


\* C35: removeGame(g) for a listed game g below currentGame lowers
\* currentGame by exactly one, so that it denotes the same game as before
\* and is an index into the games list.
C35_RemoveBelowKeepsSelection ==
  [][(/\ ev'.op = "removeGame"
      /\ currentGame < Len(games)
      /\ \E g \in 0..(currentGame - 1) : games' = Splice(St, g).games)
     => /\ currentGame' = currentGame - 1
        /\ currentGame' \in 0..(Len(games') - 1)
        /\ games'[currentGame' + 1] = games[currentGame + 1]]_vars

\* ------------------------------------------- the selection specification
\* Game files are uploaded and setGame / setMatch are called with any index,
\* listed or not, while the loop runs.
SelectArgs == -1..MaxGames

\* client.setGame(game)
SetGameCall(game) ==
  \E s \in {SetGame(St, game)} : Commit(s) /\ ev' = Event("setGame", s)

\* client.setMatch(match)
SetMatchCall(match) ==
  \E s \in {SetMatch(St, match)} : Commit(s) /\ ev' = Event("setMatch", s)

SelectGame == \E game \in SelectArgs : SetGameCall(game)
SelectMatch == \E match \in SelectArgs : SetMatchCall(match)

SelectNext ==
  \/ NavLoad
  \/ NavLoaded
  \/ NavTick
  \/ SelectGame
  \/ SelectMatch

SelectSpec == Init /\ [][SelectNext]_vars

\* The call that left s threw, and left the selection and the pending loop
\* as they are now.
Rejected(s) ==
  /\ s.err
  /\ s.currentGame = currentGame /\ s.currentMatch = currentMatch
  /\ s.raf = raf /\ s.loopID = loopID /\ s.playing = playing

\* C36: setGame(g) with g outside the listed games throws and leaves
\* currentGame, currentMatch and the pending loop unchanged; so does
\* setMatch(m) with m outside the matches of the current game.
C36_InvalidSelectionRejected ==
  \A x \in SelectArgs :
    /\ (x < 0 \/ x >= Len(games)) => Rejected(SetGame(St, x))
    /\ (/\ currentGame \in 0..(Len(games) - 1)
        /\ (x < 0 \/ x >= MatchCount(games[currentGame + 1])))
       => Rejected(SetMatch(St, x))

\* setMatch has thrown for an index outside the current game's matches while
\* a frame of the running loop was pending.
C36_Witness ==
  /\ ev.op = "setMatch" /\ ev.err
  /\ currentGame \in 0..(Len(games) - 1)
  /\ TickPending


\* (currentGame, currentMatch) denotes a listed match.
SelectionListed ==
  /\ currentGame \in 0..(Len(games) - 1)
  /\ currentMatch \in 0..(MatchCount(games[currentGame + 1]) - 1)

\* The selected match is the last match of the last game.
AtLastMatch ==
  /\ currentGame = Len(games) - 1
  /\ currentMatch = MatchCount(games[currentGame + 1]) - 1

\* C37: from every selection (currentGame, currentMatch) of a listed match
\* other than the last match of the last game, onNextMatch followed by
\* onPreviousMatch selects (currentGame, currentMatch) again, without an
\* error, and leaves exactly one pending frame, of a loop that plays that
\* match.
C37_NextThenPreviousRestores ==
  (SelectionListed /\ ~AtLastMatch) =>
    LET s == OnPreviousMatch(OnNextMatch(St))
    IN  /\ ~s.err
        /\ s.currentGame = currentGame /\ s.currentMatch = currentMatch
        /\ Cardinality(s.raf) = 1
        /\ \A cb \in s.raf : cb.cur
        /\ s.playing = <<games[currentGame + 1], currentMatch>>

\* The previous-match button has just stepped back from the first match of
\* the second game to the last match of the first, a game of two matches.
C37_Witness ==
  /\ ev.op = "previousMatch" /\ ev.frames = 1
  /\ Len(games) > 1
  /\ currentGame = 0 /\ currentMatch = 1
  /\ playing = <<games[1], 1>>


\* ============================================================ map editor
\* MapEditorForm: the units of the map being edited, by id.
MaxLastID == 4
UnitIds == 1..MaxLastID
NaN == -3

\* String(id) of a non-negative integer, as the sequence of its digits
RECURSIVE DigitString(_)
DigitString(n) == IF n < 10 THEN <<n>> ELSE Append(DigitString(n \div 10), n % 10)

\* parseInt(text) of a text of digits; NaN for the empty text
RECURSIVE ParseDigits(_)
ParseDigits(text) ==
  IF text = <<>> THEN 0
  ELSE 10 * ParseDigits(SubSeq(text, 1, Len(text) - 1)) + text[Len(text)]

ParseInt(text) == IF text = <<>> THEN NaN ELSE ParseDigits(text)

\* The form as one record; calls lists the setUnit / deleteUnit calls of the
\* running handler.
Ed ==
  [lastID |-> lastID, originalBodies |-> originalBodies, idA |-> idA,
   idT |-> idT, tree |-> tree, calls |-> <<>>]

CommitEditor(e) ==
  /\ lastID' = e.lastID
  /\ originalBodies' = e.originalBodies
  /\ idA' = e.idA
  /\ idT' = e.idT
  /\ tree' = e.tree
  /\ UNCHANGED clientVars

EditorEvent(op, e) ==
  [op |-> op, seeks |-> <<>>, computes |-> <<>>, frames |-> 0,
   calls |-> e.calls, err |-> FALSE, branch |-> "", render |-> "", lerp |-> 0]

Has(e, id) == id \in DOMAIN e.originalBodies

\* Mutant: lastID moves on only when the unit was added under lastID itself.
SetUnit_IncrementOnFresh(e, id, type) ==
  [e EXCEPT !.lastID = IF id = @ THEN @ + 1 ELSE @,
            !.originalBodies = [i \in DOMAIN @ \cup {id} |->
                                  IF i = id THEN type ELSE @[i]],
            !.calls = Append(@, [fn |-> "setUnit", arg |-> id])]

\* setUnit(id, body)
SetUnit(e, id, type) ==
  [e EXCEPT !.lastID = IF Has(e, id) THEN @ ELSE @ + 1,
            !.originalBodies = [i \in DOMAIN @ \cup {id} |->
                                  IF i = id THEN type ELSE @[i]],
            !.calls = Append(@, [fn |-> "setUnit", arg |-> id])]

\* deleteUnit(id)
DeleteUnit(e, id) ==
  LET e1 == [e EXCEPT !.calls = Append(@, [fn |-> "deleteUnit", arg |-> id])]
  IN  IF Has(e, id)
      THEN [e1 EXCEPT !.originalBodies = [i \in DOMAIN @ \ {id} |-> @[i]]]
      ELSE e1

\* setArchonForm(loc, id) and setTreeForm(loc, radius, bullets, body, id):
\* the id label they leave; id is UNDEFINED when the argument is omitted.
SetArchonForm(e, id) ==
  [e EXCEPT !.idA = IF id = UNDEFINED THEN <<>> ELSE DigitString(id)]

SetTreeForm(e, id) ==
  [e EXCEPT !.idT = IF id = UNDEFINED THEN <<>> ELSE DigitString(id)]

\* onclickUnit(id), the renderer's callback for a click on a drawn unit
OnclickUnit(e, id) ==
  IF ~Has(e, id) THEN e
  ELSE IF e.originalBodies[id] = "ARCHON"
       THEN SetArchonForm([e EXCEPT !.tree = FALSE], id)
       ELSE SetTreeForm([e EXCEPT !.tree = TRUE], id)

\* onclickBlank(loc), the renderer's callback for a click on empty map
OnclickBlank(e) ==
  IF ~e.tree THEN SetArchonForm(e, UNDEFINED) ELSE SetTreeForm(e, UNDEFINED)

\* addbutton.onclick; valid: x, y and radius parse as numbers and radius is
\* not 0 (the fields are the user's to edit between clicks).
AddbuttonOnclick(e, valid) ==
  LET id   == IF e.tree THEN e.idT ELSE e.idA
      type == IF e.tree THEN "TREE_NEUTRAL" ELSE "ARCHON"
  IN  IF ~valid THEN e
      ELSE IF id = <<>> THEN SetUnit(e, e.lastID, type)
      ELSE SetUnit(e, ParseInt(id), type)

\* deletebutton.onclick
DeletebuttonOnclick(e) ==
  LET id == ParseInt(IF e.tree THEN e.idT ELSE e.idA)
  IN  IF id # NaN THEN DeleteUnit(e, id) ELSE e

\* -------------------------------------------------- the editor actions
AddButton ==
  /\ lastID < MaxLastID
  /\ \E valid \in BOOLEAN :
       \E e \in {AddbuttonOnclick(Ed, valid)} :
         CommitEditor(e) /\ ev' = EditorEvent("addbutton", e)

DeleteButton ==
  \E e \in {DeletebuttonOnclick(Ed)} :
    CommitEditor(e) /\ ev' = EditorEvent("deletebutton", e)

ClickUnit ==
  \E id \in UnitIds :
    \E e \in {OnclickUnit(Ed, id)} :
      CommitEditor(e) /\ ev' = EditorEvent("onclickUnit", e)

ClickBlank ==
  \E e \in {OnclickBlank(Ed)} :
    CommitEditor(e) /\ ev' = EditorEvent("onclickBlank", e)

\* a click on the tree or the archon radio button
ClickRadio ==
  \E checked \in BOOLEAN :
    \E e \in {[Ed EXCEPT !.tree = checked]} :
      CommitEditor(e) /\ ev' = EditorEvent("radio", e)

EditorNext ==
  \/ AddButton
  \/ DeleteButton
  \/ ClickUnit
  \/ ClickBlank
  \/ ClickRadio

EditorSpec == Init /\ [][EditorNext]_vars

\* C38: after every handler of the form, lastID is above every id in
\* originalBodies; a setUnit call raises lastID by one exactly if its id was
\* not in originalBodies, and leaves the unit under that id and the other
\* units in place; a deleteUnit call for an id not in originalBodies changes
\* neither lastID nor originalBodies.
C38_UnitIdsStayFresh ==
  [][/\ \A id \in DOMAIN originalBodies' : id < lastID'
     /\ \A i \in 1..Len(ev'.calls) :
          LET c == ev'.calls[i]
          IN  /\ c.fn = "setUnit" =>
                   /\ lastID' = IF c.arg \in DOMAIN originalBodies
                                THEN lastID ELSE lastID + 1
                   /\ DOMAIN originalBodies' = DOMAIN originalBodies \cup {c.arg}
                   /\ \A id \in DOMAIN originalBodies \ {c.arg} :
                        originalBodies'[id] = originalBodies[id]
              /\ (c.fn = "deleteUnit" /\ c.arg \notin DOMAIN originalBodies) =>
                   UNCHANGED <<lastID, originalBodies>>]_vars

\* The add button has just set unit 1 from its id label, as the only unit,
\* after another add and a delete.
C38_Witness ==
  /\ ev.op = "addbutton"
  /\ ev.calls = <<[fn |-> "setUnit", arg |-> 1]>>
  /\ DOMAIN originalBodies = {1}
  /\ lastID = 3

====
